---------------------------- MODULE Spec2Model ----------------------------
(***************************************************************************)
(* A model of cr8/run_crate.py: the process supervisor CrateNode, its      *)
(* background OutputMonitor, the bounded poller Timeout / wait_until and   *)
(* the teardown in CrateNode.stop.                                         *)
(*                                                                         *)
(* The specifications of this module:                                     *)
(*   SpecPoll  Timeout and wait_until against an explicit clock;           *)
(*   Spec      CrateNode.start running concurrently with the reader        *)
(*             thread of OutputMonitor;                                    *)
(*   SpecLive  Spec with the caller's exception handler running to its end;*)
(*   SpecParse the reader thread with AddrConsumer and _set_addr on every  *)
(*             kind of line;                                               *)
(*   SpecStop  the process handle, the reader's error handling and         *)
(*             CrateNode.stop with the data directory on disk;             *)
(*   SpecRun   run_crate: the with-block, the interrupt and __exit__.      *)
(* Each specification moves its own variables and leaves the others at     *)
(* their rest values.                                                      *)
(***************************************************************************)
EXTENDS Integers, Sequences, FiniteSets

(***************************************************************************)
(* Bounds of the model.                                                    *)
(***************************************************************************)
\* largest timeout a Timeout object is constructed with (SpecPoll)
MaxTimeout == 2
\* largest poll interval a Timeout object is constructed with (SpecPoll)
MaxSleep == 2
\* longest time a caller lets pass between constructing a Timeout and its first check
MaxDelay == 3
\* longest time one predicate call takes
MaxPredTime == 1

\* Python's None, for each kind of value that may be unset.
None == "None"
NoUrl == [scheme |-> "None", addr |-> "None"]
NoLine == [tag |-> "None", addr |-> "None", raw |-> FALSE]
NoFile == [exists |-> FALSE, lines |-> <<>>]

\* The fan-out of a line: the consumers registered when it was read, and
\* those it has been sent to, in order.
NoFan == [at_read |-> <<>>, sent |-> <<>>]

\* The callback of AddrConsumer not called yet.
NoCall == [calls |-> 0, protocol |-> "None", addr |-> "None",
           host_before |-> "None", url_before |-> NoUrl]

\* The history of start() before anything happened.
NoExc == [raised |-> FALSE, exited |-> FALSE]

\* run_crate inside its with-block, about to call n.start() (line 548).
NoRun == [pc |-> "with", exc |-> "None", at |-> "None", caught |-> FALSE]

NoHist == [addrStored |-> FALSE, portCalled |-> FALSE, portOk |-> FALSE,
           sslCalls |-> 0, sslResult |-> "None", healthCalled |-> FALSE,
           healthOk |-> FALSE, schemeChanges |-> 0, badChange |-> FALSE,
           timedOut |-> None, handled |-> FALSE, bufLenAtTimeout |-> 0,
           healthTarget |-> None]

VARIABLES
    \* ---- Timeout / wait_until (SpecPoll) ----
    timeout,      \* Timeout.timeout
    sleep,        \* Timeout.sleep
    start_time,   \* Timeout.start_time
    first_ok,     \* Timeout._first_ok (also the poller of the current stage of start)
    now,          \* the wall clock, time.time()
    ppc,          \* position in wait_until: "check", "pred", "returned", "raised"
    trueFrom,     \* the predicate is false at every elapsed time below trueFrom
    sleeps,       \* history: number of time.sleep calls made by the poller
    first,        \* history: what the first check did
    lastPred,     \* history: the latest predicate call
    idle,         \* history: time that passed outside the poller's sleeps
    \* ---- CrateNode and OutputMonitor (Spec) ----
    process,      \* CrateNode.process: None or the Popen handle
    consumers,    \* OutputMonitor.consumers, in registration order
    http_host,    \* CrateNode.http_host: None or an address
    http_url,     \* CrateNode.http_url: None or [scheme, addr]
    line_buf,     \* LineBuffer.lines of the line_buf of start()
    spc,          \* position of the caller in CrateNode.start
    host,         \* the locals host, port of start() (line 253)
    url_tmp,      \* line 257: the value of self.http_url read for replace()
    emit_i,       \* line 263: index of the iteration over line_buf.lines
    rpc,          \* position of the reader thread in OutputMonitor._consume
    rline,        \* the line the reader is fanning out
    ridx,         \* index of the reader's iteration over self.consumers
    nread,        \* number of lines read from proc.stdout
    logfile,      \* the file <logs_path>/<cluster_name>.log: None or its lines
    emitted,      \* the records passed to log.error, in order
    logReads,     \* number of attempts to open the log file
    hist,         \* history of the probes and of the ready URL
    on_addr,      \* history: the calls of the callback on_addr for the line rline
    fan,          \* history: the fan-out of the line rline
    \* ---- the process handle, the data directory and stop() (SpecStop) ----
    data_path,    \* CrateNode.data_path, a string (sequence of characters)
    keep_data,    \* CrateNode.keep_data
    disk,         \* the paths that exist on the file system
    alive,        \* whether the operating system process is running
    returncode,   \* Popen.returncode: None until the exit has been collected
    phase,        \* "NotStarted", or how start() ended: "Ready", "Failed"
    calls,        \* history: one record per call of stop()
    rexc,         \* history: the exception the reader's iteration raised
    \* ---- run_crate (SpecRun) ----
    run           \* position of the caller in run_crate and what it has seen

pollVars == <<timeout, sleep, start_time, now, ppc, trueFrom, sleeps, first,
              lastPred, idle>>

startVars == <<consumers, http_host, http_url, line_buf, spc, host, url_tmp,
               emit_i, rline, ridx, nread, logfile, emitted, logReads, hist,
               on_addr, fan>>

nodeVars == <<process, rpc, startVars>>

stopVars == <<data_path, keep_data, disk, alive, returncode, phase, calls, rexc>>

vars == <<pollVars, first_ok, nodeVars, stopVars, run>>

-----------------------------------------------------------------------------
(***************************************************************************)
(* Timeout (lines 83-105) and wait_until (lines 108-117).                  *)
(***************************************************************************)

\* Mutant: the deadline is granted a grace period.
past_deadline_grace(t, st, to) == (t - st) - 3 > to

\* Line 95: (now - self.start_time) > self.timeout
past_deadline(t, st, to) == (t - st) > to

\* Mutant: the first check is not exempt from the deadline.
timeout_expired_no_first(fo, t, st, to) == past_deadline(t, st, to)

\* The truth value of timeout_expired(): False on the first call, True when
\* the wall clock is past the deadline, None (falsy) otherwise.
timeout_expired(fo, t, st, to) == IF fo THEN FALSE ELSE past_deadline(t, st, to)

\* The time timeout_expired() spends in time.sleep: none on the first call,
\* none when it reports expiry, self.sleep otherwise (none if sleep is 0).
\* time.sleep(s) is taken to last exactly s.
sleep_taken(fo, t, st, to, sl) ==
    IF fo \/ past_deadline(t, st, to) THEN 0 ELSE sl

\* The predicate handed to wait_until, called at elapsed time e: it cannot
\* be truthy before trueFrom.
predicate(e) == IF e < trueFrom THEN {FALSE} ELSE BOOLEAN

\* The supervisor's variables while only the poller is exercised.
NodeRest ==
    /\ process = None /\ consumers = <<>> /\ http_host = None /\ http_url = NoUrl
    /\ line_buf = <<>> /\ spc = "init" /\ host = None /\ url_tmp = NoUrl
    /\ emit_i = 0 /\ rpc = "idle" /\ rline = NoLine /\ ridx = 0 /\ nread = 0
    /\ logfile = NoFile /\ emitted = <<>> /\ logReads = 0 /\ hist = NoHist
    /\ on_addr = NoCall /\ fan = NoFan

\* The variables of the teardown while it is not exercised.
StopRest ==
    /\ data_path = <<>> /\ keep_data = FALSE /\ disk = {} /\ alive = FALSE
    /\ returncode = None /\ phase = "NotStarted" /\ calls = <<>> /\ rexc = NoExc
    /\ run = NoRun

NoPred == [called |-> FALSE, at |-> 0, idle |-> 0, result |-> FALSE]
NoFirst == [done |-> FALSE, expired |-> FALSE, slept |-> FALSE, elapsed |-> 0]

\* Timeout.__init__ (lines 84-88) as called by wait_until (line 113).
InitPoll ==
    /\ timeout \in 0..MaxTimeout
    /\ sleep \in 0..MaxSleep
    /\ trueFrom \in 0..(MaxTimeout + 2 * MaxSleep + 1)
    /\ start_time = 0
    /\ now = 0
    /\ first_ok = TRUE
    /\ ppc = "check"
    /\ sleeps = 0
    /\ first = NoFirst
    /\ lastPred = NoPred
    /\ idle = 0
    /\ NodeRest
    /\ StopRest

\* Time passing between the construction of a Timeout and its first check.
Elapse ==
    /\ ppc = "check"
    /\ first_ok
    /\ \E d \in 1..MaxDelay :
         /\ (now + d) - start_time <= MaxDelay
         /\ now' = now + d
         /\ idle' = idle + d
    /\ UNCHANGED <<timeout, sleep, start_time, first_ok, ppc, trueFrom, sleeps,
                   first, lastPred>>
    /\ UNCHANGED <<nodeVars, stopVars, run>>

\* Timeout.__call__ (lines 102-105) running timeout_expired (lines 90-98):
\* the loop condition of wait_until (line 114).
not_expired ==
    /\ ppc = "check"
    /\ LET exp == timeout_expired(first_ok, now, start_time, timeout)
           sl  == sleep_taken(first_ok, now, start_time, timeout, sleep)
       IN  /\ ppc' = IF exp THEN "raised" ELSE "pred"
           /\ now' = now + sl
           /\ sleeps' = IF sl > 0 THEN sleeps + 1 ELSE sleeps
           /\ first' = IF first.done THEN first
                       ELSE [done |-> TRUE, expired |-> exp, slept |-> sl > 0,
                             elapsed |-> now - start_time]
    /\ first_ok' = FALSE
    /\ UNCHANGED <<timeout, sleep, start_time, trueFrom, lastPred, idle>>
    /\ UNCHANGED <<nodeVars, stopVars, run>>

\* wait_until lines 115-117: call the predicate, leave the loop when truthy.
predicate_call ==
    /\ ppc = "pred"
    /\ \E r \in predicate(now - start_time), d \in 0..MaxPredTime :
         /\ lastPred' = [called |-> TRUE, at |-> now - start_time,
                         idle |-> idle, result |-> r]
         /\ now' = now + d
         /\ idle' = idle + d
         /\ ppc' = IF r THEN "returned" ELSE "check"
    /\ UNCHANGED <<timeout, sleep, start_time, first_ok, trueFrom, sleeps, first>>
    /\ UNCHANGED <<nodeVars, stopVars, run>>

NextPoll ==
    \/ Elapse
    \/ not_expired
    \/ predicate_call

\* The loop is one thread that keeps running: weak fairness of its steps.
SpecPoll == InitPoll /\ [][NextPoll]_vars /\ WF_vars(NextPoll)

-----------------------------------------------------------------------------
(***************************************************************************)
(* Claims about the bounded poller (checked under SpecPoll).               *)
(***************************************************************************)

\* C8: whatever the timeout (0 included) and the poll interval, and however
\* much time has passed since construction, the first check of a Timeout
\* neither sleeps nor reports expiry; so wait_until has called its predicate
\* before the poller sleeps for the first time.
C8_FirstCheckFree ==
    /\ first.done => (~first.expired /\ ~first.slept)
    /\ sleeps > 0 => lastPred.called

\* A first check made with timeout 0 after the deadline had already passed,
\* followed by a predicate call.
C8_Witness ==
    /\ first.done /\ timeout = 0 /\ first.elapsed > 0
    /\ sleep > 0 /\ lastPred.called

\* The predicate is false at every elapsed time up to and including T + 2S.
C9_Hyp == sleep > 0 /\ trueFrom > timeout + 2 * sleep

\* C9: for timeout T and poll interval S > 0, with time advancing only in
\* the poller's sleeps (predicate calls take no time), a predicate that is
\* false at every elapsed time up to and including T + 2S makes wait_until
\* raise TimeoutError: it never returns normally, and it does raise.
C9_LatePredicateTimesOut ==
    /\ [](C9_Hyp /\ ppc = "returned" => lastPred.idle > 0)
    /\ (C9_Hyp => <>(ppc = "raised" \/ idle > 0))

\* wait_until raised after at least one sleep and a predicate call at an
\* elapsed time past the timeout, no time having passed outside the sleeps.
C9_Witness ==
    /\ C9_Hyp /\ ppc = "raised" /\ idle = 0
    /\ sleeps > 0 /\ lastPred.called /\ lastPred.at > timeout

\* C13 (as claimed): with time advancing only in the poller's sleeps, a
\* check after the first one that reports 'not expired' has slept before
\* comparing, so the elapsed time after its sleep is within the timeout;
\* and no predicate call is made at an elapsed time above the timeout.
C13_SleepBeforeCompare ==
    /\ (ppc = "pred" /\ lastPred.called /\ idle = 0) =>
          now - start_time <= timeout
    /\ (lastPred.called /\ lastPred.idle = 0) => lastPred.at <= timeout

-----------------------------------------------------------------------------
(***************************************************************************)
(* CrateNode.start (lines 218-269) with the reader thread of               *)
(* OutputMonitor (lines 62-80), the consumers AddrConsumer (302-341) and   *)
(* LineBuffer (293-299), and the callback CrateNode._set_addr (271-275).   *)
(*                                                                         *)
(* start() is called once on a node, as run_crate does (line 548).  The    *)
(* caller and the reader are two threads; each action below is one step    *)
(* of one of them between two accesses to state the other one shares.      *)
(* The probes _is_up, _has_ssl and cluster_state_200 talk to the outside   *)
(* world: their results are chosen by the environment.                     *)
(***************************************************************************)

\* number of lines the process writes to its output
MaxLines == 2

\* the timeout of each waiting stage of start() (lines 252, 255, 258)
StartTimeout == 30

\* Two addresses a node may publish.
Addr1 == "127.0.0.1:4200"
Addr2 == "127.0.0.1:4201"

\* The protocol tags ADDRESS_RE names (line 305).
AddressTags == {"http", "o.e.h.HttpServer", "psql", "transport",
                "o.e.t.TransportService"}

\* A line of the process output, as read from proc.stdout, by the parts
\* ADDRESS_RE (lines 304-312) looks at:
\*   tag    the text behind a '[': the name of a logger;
\*   pad    the number of blanks between the tag and its ']';
\*   node   whether ' [<node name>] ' follows;
\*   key    the word before the '{';
\*   wrap   what stands between the '{' and the address;
\*   addr   the text where the address is expected;
\*   close  whether the '}' follows (after an optional ']');
\*   raw    whether the line still carries its line end.
\* Line(tag, key, addr) is a line as CrateDB writes it.
Line(tag, key, addr) ==
    [tag |-> tag, pad |-> 1, node |-> TRUE, key |-> key, wrap |-> "",
     addr |-> addr, close |-> TRUE, raw |-> TRUE]

\* The lines the process may write while start() runs.
OutputLines ==
    { Line("http", "publish_address", Addr1),
      Line("o.e.h.HttpServer", "publish_address", Addr2),
      Line("psql", "publish_address", Addr1),
      Line("node", "started", "") }

\* The contents the log file may have when it exists.
LogFiles ==
    { NoFile,
      [exists |-> TRUE, lines |-> <<>>],
      [exists |-> TRUE, lines |-> <<Line("node", "started", "")>>] }

\* (?P<protocol>http|o.e.h.HttpServer|psql|transport|o.e.t.TransportService),
\* line 305: the dots are not escaped and stand for any character.
protocol_re(tag) == tag \in AddressTags \cup {"oXeXhXHttpServer"}

\* (?:inet\[[\w\d\.-]*/|\[)?(?:[\w\d\.-]+/)?, lines 307-308: nothing, an
\* 'inet[' with an optional name and a '/', a '[', or a name and a '/'.
wrap_re(wrap) == wrap \in {"", "inet[/", "inet[crate/", "[", "crate/"}

\* (?P<addr>[\d\.:]+), line 309: one or more digits, dots and colons.
addr_re(addr) == addr \in {Addr1, Addr2}

\* ADDRESS_RE.match(line), lines 304-312 and 330.
ADDRESS_RE(line) ==
    /\ protocol_re(line.tag)
    /\ line.pad >= 1
    /\ line.node
    /\ line.key = "publish_address"
    /\ wrap_re(line.wrap)
    /\ addr_re(line.addr)
    /\ line.close

\* PROTOCOL_MAP.get(protocol, protocol), lines 313-316 and 335.
PROTOCOL_MAP(tag) ==
    CASE tag = "o.e.h.HttpServer" -> "http"
      [] tag = "o.e.t.TransportService" -> "transport"
      [] OTHER -> tag

\* AddrConsumer._parse, lines 322-336.
_parse(line) ==
    IF ADDRESS_RE(line)
    THEN <<PROTOCOL_MAP(line.tag), line.addr>>
    ELSE <<None, None>>

\* Mutant: AddrConsumer.send calls the callback for every line.
calls_back_always(protocol) == TRUE

\* Line 340: if protocol
calls_back(protocol) == protocol \notin {None, ""}

\* line.strip(), line 299.
strip(line) == [line EXCEPT !.raw = FALSE]

\* 'http://' + addr, line 275.
http_of(addr) == [scheme |-> "http", addr |-> addr]

\* url.replace('http://', 'https://'), line 257.
replace_scheme(url) ==
    IF url.scheme = "http" THEN [url EXCEPT !.scheme = "https"] ELSE url

\* Mutant: _set_addr stores the address of every protocol.
is_http_any(protocol) == TRUE

\* Line 273: if protocol == 'http'
is_http(protocol) == protocol = "http"

\* Mutant: the loop of wait_until is left whatever the predicate returned.
wait_done_always(r) == TRUE

\* wait_until lines 116-117: the loop is left when the predicate is truthy.
wait_done(r) == r

\* What the wall clock may show when a stage's poller is checked: within
\* the deadline or past it.
Elapsed == {0, StartTimeout + 1}

\* list.remove(x): the first occurrence of x is dropped.
RECURSIVE Remove(_, _)
Remove(seq, x) ==
    IF seq = <<>> THEN <<>>
    ELSE IF Head(seq) = x THEN Tail(seq)
    ELSE <<Head(seq)>> \o Remove(Tail(seq), x)

\* The poller's variables while the supervisor is exercised: each stage of
\* start() has its own Timeout, of which only _first_ok is kept.
PollRest ==
    /\ timeout = StartTimeout /\ sleep = 0 /\ start_time = 0 /\ now = 0
    /\ ppc = "idle" /\ trueFrom = 0 /\ sleeps = 0 /\ first = NoFirst
    /\ lastPred = NoPred /\ idle = 0

\* CrateNode.__init__, lines 190-216, and the log file the process may
\* have written by the time start() looks for it.
Init ==
    /\ PollRest
    /\ first_ok = TRUE
    /\ process = None /\ consumers = <<>> /\ http_host = None /\ http_url = NoUrl
    /\ line_buf = <<>> /\ spc = "init" /\ host = None /\ url_tmp = NoUrl
    /\ emit_i = 0 /\ rpc = "idle" /\ rline = NoLine /\ ridx = 0 /\ nread = 0
    /\ logfile \in LogFiles
    /\ emitted = <<>> /\ logReads = 0 /\ hist = NoHist
    /\ on_addr = NoCall /\ fan = NoFan
    /\ StopRest

\* ---- the caller's thread: CrateNode.start ----

\* Lines 223-247: spawn the process, register the AddrConsumer, start the
\* reader thread.
Launch ==
    /\ spc = "init"
    /\ process' = "Popen"
    /\ consumers' = Append(consumers, "addr")
    /\ rpc' = "next"
    /\ spc' = "l250"
    /\ UNCHANGED <<pollVars, stopVars, run, on_addr, fan, first_ok, http_host, http_url, line_buf, host,
                   url_tmp, emit_i, rline, ridx, nread, logfile, emitted,
                   logReads, hist>>

\* Lines 250-252: create and register the LineBuffer; wait_until builds the
\* Timeout of the address stage.
RegisterBuf ==
    /\ spc = "l250"
    /\ line_buf' = <<>>
    /\ consumers' = Append(consumers, "buf")
    /\ first_ok' = TRUE
    /\ spc' = "wait_addr"
    /\ UNCHANGED <<pollVars, stopVars, run, on_addr, fan, process, http_host, http_url, host, url_tmp,
                   emit_i, rpc, rline, ridx, nread, logfile, emitted, logReads,
                   hist>>

\* A stage's wait_until reaching its deadline: TimeoutError (line 104).
Expire(stage) ==
    /\ spc' = "handler"
    /\ hist' = [hist EXCEPT !.timedOut = stage]
    /\ first_ok' = FALSE

\* Line 252: one round of wait_until(lambda: self.http_host).
PollAddr ==
    /\ spc = "wait_addr"
    /\ \E el \in Elapsed :
         IF timeout_expired(first_ok, el, start_time, timeout)
         THEN Expire("addr")
         ELSE /\ first_ok' = FALSE
              /\ spc' = IF wait_done(http_host # None) THEN "split" ELSE "wait_addr"
              /\ hist' = hist
    /\ UNCHANGED <<pollVars, stopVars, run, on_addr, fan, process, consumers, http_host, http_url, line_buf,
                   host, url_tmp, emit_i, rpc, rline, ridx, nread, logfile,
                   emitted, logReads>>

\* Lines 253-255: host, port = self.http_host.split(':'); wait_until builds
\* the Timeout of the port stage.  None has no split: AttributeError.
Split ==
    /\ spc = "split"
    /\ IF http_host = None
       THEN spc' = "error" /\ host' = host
       ELSE spc' = "wait_port" /\ host' = http_host
    /\ first_ok' = TRUE
    /\ UNCHANGED <<pollVars, stopVars, run, on_addr, fan, process, consumers, http_host, http_url, line_buf,
                   url_tmp, emit_i, rpc, rline, ridx, nread, logfile, emitted,
                   logReads, hist>>

\* Line 255: one round of wait_until(lambda: _is_up(host, port)).
PollPort ==
    /\ spc = "wait_port"
    /\ \E el \in Elapsed :
         IF timeout_expired(first_ok, el, start_time, timeout)
         THEN Expire("port")
         ELSE \E up \in BOOLEAN :
                /\ first_ok' = FALSE
                /\ hist' = [hist EXCEPT !.portCalled = TRUE,
                                        !.portOk = @ \/ up]
                /\ spc' = IF wait_done(up) THEN "ssl" ELSE "wait_port"
    /\ UNCHANGED <<pollVars, stopVars, run, on_addr, fan, process, consumers, http_host, http_url, line_buf,
                   host, url_tmp, emit_i, rpc, rline, ridx, nread, logfile,
                   emitted, logReads>>

\* Lines 256-257: _has_ssl(host, port) returns; when true, self.http_url is
\* read for replace() (None has no replace: AttributeError); when false,
\* wait_until builds the Timeout of the health stage.
HasSsl ==
    /\ spc = "ssl"
    /\ \E tls \in BOOLEAN :
         /\ hist' = [hist EXCEPT !.sslCalls = @ + 1,
                                 !.sslResult = IF tls THEN "True" ELSE "False"]
         /\ IF tls
            THEN /\ url_tmp' = http_url
                 /\ spc' = IF http_url = NoUrl THEN "error" ELSE "upgrade"
                 /\ first_ok' = first_ok
            ELSE /\ url_tmp' = url_tmp
                 /\ spc' = "wait_health"
                 /\ first_ok' = TRUE
    /\ UNCHANGED <<pollVars, stopVars, run, on_addr, fan, process, consumers, http_host, http_url, line_buf,
                   host, emit_i, rpc, rline, ridx, nread, logfile, emitted,
                   logReads>>

\* Line 256: _has_ssl raises an error other than ssl.SSLError (lines
\* 129-134 catch only that one); start() ends with it.
HasSslRaises ==
    /\ spc = "ssl"
    /\ hist' = [hist EXCEPT !.sslCalls = @ + 1]
    /\ spc' = "error"
    /\ UNCHANGED <<pollVars, stopVars, run, on_addr, fan, first_ok, process, consumers, http_host, http_url,
                   line_buf, host, url_tmp, emit_i, rpc, rline, ridx, nread,
                   logfile, emitted, logReads>>

\* A change of the scheme of the ready URL from old to new, recorded.
SchemeChange(h, old, new) ==
    IF old # NoUrl /\ new # NoUrl /\ old.scheme # new.scheme
    THEN [h EXCEPT !.schemeChanges = @ + 1,
                   !.badChange = @ \/ ~h.portOk \/ h.healthCalled]
    ELSE h

\* Line 257: the store of the replaced URL into self.http_url; wait_until
\* builds the Timeout of the health stage.
Upgrade ==
    /\ spc = "upgrade"
    /\ http_url' = replace_scheme(url_tmp)
    /\ hist' = SchemeChange(hist, http_url, replace_scheme(url_tmp))
    /\ first_ok' = TRUE
    /\ spc' = "wait_health"
    /\ UNCHANGED <<pollVars, stopVars, run, on_addr, fan, process, consumers, http_host, line_buf, host,
                   url_tmp, emit_i, rpc, rline, ridx, nread, logfile, emitted,
                   logReads>>

\* Line 258: one round of wait_until(lambda: cluster_state_200(self.http_url)).
\* The probe returns False on any exception (lines 142-144).
PollHealth ==
    /\ spc = "wait_health"
    /\ \E el \in Elapsed :
         IF timeout_expired(first_ok, el, start_time, timeout)
         THEN Expire("health")
         ELSE \E ok \in (IF http_url = NoUrl THEN {FALSE} ELSE BOOLEAN) :
                /\ first_ok' = FALSE
                /\ hist' = [hist EXCEPT !.healthCalled = TRUE,
                                        !.healthOk = @ \/ ok,
                                        !.healthTarget = http_url.addr]
                /\ spc' = IF wait_done(ok) THEN "else" ELSE "wait_health"
    /\ UNCHANGED <<pollVars, stopVars, run, on_addr, fan, process, consumers, http_host, http_url, line_buf,
                   host, url_tmp, emit_i, rpc, rline, ridx, nread, logfile,
                   emitted, logReads>>

\* Lines 266-269: deregister the LineBuffer; start() returns.
Deregister ==
    /\ spc = "else"
    /\ consumers' = Remove(consumers, "buf")
    /\ spc' = "ready"
    /\ UNCHANGED <<pollVars, stopVars, run, on_addr, fan, first_ok, process, http_host, http_url, line_buf,
                   host, url_tmp, emit_i, rpc, rline, ridx, nread, logfile,
                   emitted, logReads, hist>>

\* Mutant: the branches of line 260 are exchanged.
use_logfile_inverted(lines) == lines # <<>>

\* Line 260: if not line_buf.lines
use_logfile(lines) == lines = <<>>

\* _try_print_log, lines 154-160: every line of the file goes to log.error;
\* a file that cannot be opened is passed over silently.
_try_print_log(file) ==
    IF ~file.exists THEN <<>>
    ELSE [i \in 1..Len(file.lines) |-> [from |-> "file", line |-> file.lines[i]]]

\* Lines 259-262: the handler of TimeoutError chooses its diagnostics.
Handler ==
    /\ spc = "handler"
    /\ hist' = [hist EXCEPT !.handled = TRUE, !.bufLenAtTimeout = Len(line_buf)]
    /\ IF use_logfile(line_buf)
       THEN /\ logReads' = logReads + 1
            /\ emitted' = emitted \o _try_print_log(logfile)
            /\ emit_i' = emit_i
            /\ spc' = "raise"
       ELSE /\ emit_i' = 1
            /\ spc' = "emit"
            /\ UNCHANGED <<logReads, emitted>>
    /\ UNCHANGED <<pollVars, stopVars, run, on_addr, fan, first_ok, process, consumers, http_host, http_url,
                   line_buf, host, url_tmp, rpc, rline, ridx, nread, logfile>>

\* Lines 263-264: one round of the loop over line_buf.lines, a list the
\* reader may still be appending to.
EmitLine ==
    /\ spc = "emit"
    /\ IF emit_i <= Len(line_buf)
       THEN /\ emitted' = Append(emitted, [from |-> "buf", line |-> line_buf[emit_i]])
            /\ emit_i' = emit_i + 1
            /\ spc' = spc
       ELSE /\ spc' = "raise"
            /\ UNCHANGED <<emitted, emit_i>>
    /\ UNCHANGED <<pollVars, stopVars, run, on_addr, fan, first_ok, process, consumers, http_host, http_url,
                   line_buf, host, url_tmp, rpc, rline, ridx, nread, logfile,
                   logReads, hist>>

\* Mutant: the handler ends without raising, and start() returns.
reraise_swallowed == "ready"

\* Line 265: raise
reraise == "raised"

\* Line 265: the TimeoutError leaves start().
Reraise ==
    /\ spc = "raise"
    /\ spc' = reraise
    /\ UNCHANGED <<pollVars, stopVars, run, on_addr, fan, first_ok, process, consumers, http_host, http_url,
                   line_buf, host, url_tmp, emit_i, rpc, rline, ridx, nread,
                   logfile, emitted, logReads, hist>>

\* ---- the reader thread: OutputMonitor._consume ----

\* Line 69: the next line of proc.stdout.
read_line(lines) ==
    /\ rpc = "next"
    /\ nread < MaxLines
    /\ \E l \in lines : rline' = l
    /\ nread' = nread + 1
    /\ ridx' = 1
    /\ rpc' = "fan"
    /\ on_addr' = NoCall
    /\ fan' = [at_read |-> consumers, sent |-> <<>>]
    /\ UNCHANGED <<pollVars, stopVars, run, first_ok, process, consumers, http_host, http_url,
                   line_buf, spc, host, url_tmp, emit_i, logfile, emitted,
                   logReads, hist>>

\* The reader reads a line the process wrote while start() runs.
ReaderRead == read_line(OutputLines)

\* Lines 70-71: the iteration over self.consumers is at index ridx; past
\* the end of the list the line is done, else the consumer there is sent
\* the line: LineBuffer.send (line 299) appends it stripped,
\* AddrConsumer.send (lines 338-341) parses it and, for a protocol that is
\* truthy, calls on_addr, which is _set_addr: for protocol http its first
\* store (line 274) happens here.
ReaderSend ==
    /\ rpc = "fan"
    /\ IF ridx > Len(consumers)
       THEN /\ rpc' = "next"
            /\ UNCHANGED <<ridx, line_buf, http_host, hist, on_addr, fan>>
       ELSE /\ ridx' = ridx + 1
            /\ fan' = [fan EXCEPT !.sent = Append(@, consumers[ridx])]
            /\ IF consumers[ridx] = "buf"
               THEN /\ line_buf' = Append(line_buf, strip(rline))
                    /\ rpc' = rpc
                    /\ UNCHANGED <<http_host, hist, on_addr>>
               ELSE /\ line_buf' = line_buf
                    /\ IF calls_back(_parse(rline)[1])
                       THEN /\ on_addr' = [calls |-> on_addr.calls + 1,
                                           protocol |-> _parse(rline)[1],
                                           addr |-> _parse(rline)[2],
                                           host_before |-> http_host,
                                           url_before |-> http_url]
                            /\ IF is_http(_parse(rline)[1])
                               THEN /\ http_host' = _parse(rline)[2]
                                    /\ hist' = [hist EXCEPT !.addrStored = TRUE]
                                    /\ rpc' = "set_url"
                               ELSE /\ rpc' = rpc
                                    /\ UNCHANGED <<http_host, hist>>
                       ELSE /\ rpc' = rpc
                            /\ UNCHANGED <<http_host, hist, on_addr>>
    /\ UNCHANGED <<pollVars, stopVars, run, first_ok, process, consumers, http_url, spc, host,
                   url_tmp, emit_i, rline, nread, logfile, emitted, logReads>>

\* Line 275: the second store of _set_addr.
ReaderSetUrl ==
    /\ rpc = "set_url"
    /\ http_url' = http_of(_parse(rline)[2])
    /\ hist' = SchemeChange(hist, http_url, http_of(_parse(rline)[2]))
    /\ rpc' = "fan"
    /\ UNCHANGED <<pollVars, stopVars, run, on_addr, fan, first_ok, process, consumers, http_host, line_buf,
                   spc, host, url_tmp, emit_i, rline, ridx, nread, logfile,
                   emitted, logReads>>

Next ==
    \/ Launch
    \/ RegisterBuf
    \/ PollAddr
    \/ Split
    \/ PollPort
    \/ HasSsl
    \/ HasSslRaises
    \/ Upgrade
    \/ PollHealth
    \/ Deregister
    \/ Handler
    \/ EmitLine
    \/ Reraise
    \/ ReaderRead
    \/ ReaderSend
    \/ ReaderSetUrl

Spec == Init /\ [][Next]_vars

\* The caller's thread keeps running once it is in the TimeoutError handler.
SpecLive == Init /\ [][Next]_vars /\ WF_vars(Handler \/ EmitLine \/ Reraise)

-----------------------------------------------------------------------------
(***************************************************************************)
(* Claims about CrateNode.start (checked under Spec or SpecLive).          *)
(***************************************************************************)

\* C1: in start() the probes run in stage order: _is_up is not called
\* before the callback stored an http address; _has_ssl and
\* cluster_state_200 are not called before an _is_up returned true;
\* cluster_state_200 is not called before _has_ssl returned; and start()
\* returns normally only after a cluster_state_200 returned true.
C1_StageOrder ==
    /\ hist.portCalled => hist.addrStored
    /\ hist.sslCalls > 0 => hist.portOk
    /\ hist.healthCalled => hist.portOk
    /\ hist.healthCalled => hist.sslResult # "None"
    /\ spc = "ready" => hist.healthOk

\* start() returned normally after all four stages, the reader having read
\* every line of the output.
C1_Witness ==
    /\ spc = "ready" /\ hist.healthOk /\ hist.sslCalls = 1 /\ nread = MaxLines

\* C2 (as claimed): at Ready the scheme of http_url is https when _has_ssl
\* returned true and http when it returned false, whatever further http
\* address lines the reader delivers; the scheme is changed at most once,
\* only after _is_up succeeded and before the first health probe; and
\* _has_ssl is called at most once.
C2_SchemeFollowsTls ==
    /\ (spc = "ready" /\ hist.sslResult = "True") => http_url.scheme = "https"
    /\ (spc = "ready" /\ hist.sslResult = "False") => http_url.scheme = "http"
    /\ hist.schemeChanges <= 1
    /\ ~hist.badChange
    /\ hist.sslCalls <= 1

\* C6: when a stage of start() times out with an empty line buffer, the log
\* file is tried (once; nothing is emitted if it is absent) and no buffered
\* line is emitted; with a non-empty buffer the log file is never read and
\* the buffered lines are emitted in arrival order, all of them by the time
\* the handler ends.
C6_Diagnostics ==
    hist.handled =>
        IF hist.bufLenAtTimeout = 0
        THEN /\ logReads = 1
             /\ \A i \in 1..Len(emitted) : emitted[i].from = "file"
             /\ ~logfile.exists => emitted = <<>>
             /\ logfile.exists => Len(emitted) = Len(logfile.lines)
        ELSE /\ logReads = 0
             /\ Len(emitted) <= Len(line_buf)
             /\ \A i \in 1..Len(emitted) :
                  emitted[i] = [from |-> "buf", line |-> line_buf[i]]
             /\ spc \in {"raise", "raised"} =>
                  Len(emitted) >= hist.bufLenAtTimeout

\* A timeout with two lines in the buffer, both emitted, the error raised.
C6_Witness ==
    /\ spc = "raised" /\ hist.bufLenAtTimeout = 2 /\ Len(emitted) >= 2
    /\ logfile.exists

\* A timeout with an empty buffer, the log file read and its line emitted.
C6_WitnessLog ==
    /\ spc = "raised" /\ hist.handled /\ hist.bufLenAtTimeout = 0
    /\ logReads = 1 /\ Len(emitted) = 1

\* The diagnostics the handler owes have been emitted.
DiagnosticsDone ==
    /\ hist.handled
    /\ IF hist.bufLenAtTimeout = 0
       THEN logReads = 1 /\ (logfile.exists => Len(emitted) = Len(logfile.lines))
       ELSE Len(emitted) >= hist.bufLenAtTimeout

\* C7: once a waiting stage of start() (address, port, health) has passed
\* its deadline, start() never returns normally and does raise
\* TimeoutError, whether the buffer is empty or not and whether the log
\* file exists or not; the diagnostics are emitted before the error
\* reaches the caller.
C7_TimeoutRaised ==
    /\ [](hist.timedOut # None => spc \in {"handler", "emit", "raise", "raised"})
    /\ [](spc = "raised" => hist.timedOut # None /\ DiagnosticsDone)
    /\ \A st \in {"addr", "port", "health"} :
         (hist.timedOut = st) ~> (spc = "raised")

\* The health stage timed out with an empty buffer and no log file, and
\* the error reached the caller.
C7_Witness ==
    /\ spc = "raised" /\ hist.timedOut = "health" /\ ~logfile.exists
    /\ hist.bufLenAtTimeout = 0

\* C14 (as claimed): a line is sent exactly once to each consumer that was
\* registered when it was read, in registration order, and to no other: a
\* consumer appended or removed during the fan-out counts from the next
\* line on.
C14_FanOutSnapshot ==
    /\ Len(fan.sent) <= Len(fan.at_read)
    /\ \A i \in 1..Len(fan.sent) :
          i <= Len(fan.at_read) => fan.sent[i] = fan.at_read[i]
    /\ (rpc = "next" /\ nread > 0) => fan.sent = fan.at_read

\* The LineBuffer of start() is in the list of consumers.
BufRegistered == \E i \in 1..Len(consumers) : consumers[i] = "buf"

\* C15 (as claimed): once the reader thread has been started the line
\* buffer is registered, until the health stage has passed; so every line
\* is read with the buffer registered, and when a stage has timed out
\* every line the reader is done with is in the buffer.
C15_RegisteredBeforeReader ==
    /\ (rpc # "idle" /\ ~BufRegistered) => hist.healthOk
    /\ (nread > 0 /\ ~hist.healthOk) =>
          \E i \in 1..Len(fan.at_read) : fan.at_read[i] = "buf"
    /\ (hist.handled /\ rpc = "next") => Len(line_buf) = nread

\* _has_ssl was called and raised instead of returning.
ProbeRaised == hist.sslCalls > 0 /\ hist.sslResult = "None"

\* C17 (as claimed): when every probe call returns, a start() that got
\* past the launch ends in one of two ways only: it returns (Ready) or it
\* raises the TimeoutError of one of its three waiting stages.
C17_ReadyOrTimeout ==
    /\ spc = "error" => ProbeRaised
    /\ (spc = "raised" /\ ~ProbeRaised) => hist.timedOut \in {"addr", "port", "health"}

\* start() has seen self.http_host set (line 252) and has not failed.
HostObserved ==
    spc \in {"split", "wait_port", "ssl", "upgrade", "wait_health", "else", "ready"}

\* C18 (as claimed): whenever start() has seen http_host set, http_url is
\* set as well and is 'http://' or 'https://' followed by http_host; and
\* start() never finds http_url unset when it reads it for the scheme
\* upgrade (line 257) or hands it to the health probe (line 258).
C18_UrlFollowsHost ==
    /\ HostObserved =>
          /\ http_url # NoUrl
          /\ http_url.scheme \in {"http", "https"}
          /\ http_url.addr = http_host
    /\ spc = "error" => ProbeRaised
    /\ hist.healthCalled => hist.healthTarget # None

\* C19 (as claimed): when start() is Ready, the address the successful
\* health probe went to and the address in the ready URL are the address
\* the port probe and the TLS probe were run against (host, port of line
\* 253), whatever http lines the reader delivered in the meantime.
C19_OneAddress ==
    /\ spc \in {"else", "ready"} => hist.healthTarget = host
    /\ spc = "ready" => http_url.addr = host

-----------------------------------------------------------------------------
(***************************************************************************)
(* AddrConsumer (lines 302-341) and CrateNode._set_addr (lines 271-275)    *)
(* on every kind of line: the reader thread alone, with the AddrConsumer   *)
(* as its only consumer (the state between lines 247 and 251).             *)
(***************************************************************************)

\* largest number of blanks between a tag and its ']'
MaxPad == 2

\* Every line by the parts ADDRESS_RE looks at.
AllLines ==
    [ tag   : AddressTags \cup {"oXeXhXHttpServer", "node", ""},
      pad   : 0..MaxPad,
      node  : BOOLEAN,
      key   : {"publish_address", "bound_addresses"},
      wrap  : {"", "inet[/", "inet[crate/", "[", "crate/", "inet["},
      addr  : {Addr1, Addr2, "localhost:4200", ""},
      close : BOOLEAN,
      raw   : {TRUE} ]

\* The addresses a node may hold when a line arrives: none yet, or one set
\* by an earlier line and possibly upgraded by start() (line 257).
StoredAddrs ==
    { [host |-> None, url |-> NoUrl],
      [host |-> Addr1, url |-> http_of(Addr1)],
      [host |-> Addr1, url |-> replace_scheme(http_of(Addr1))] }

InitParse ==
    /\ PollRest
    /\ first_ok = TRUE
    /\ process = "Popen" /\ consumers = <<"addr">>
    /\ \E st \in StoredAddrs : http_host = st.host /\ http_url = st.url
    /\ line_buf = <<>> /\ spc = "l250" /\ host = None /\ url_tmp = NoUrl
    /\ emit_i = 0 /\ rpc = "next" /\ rline = NoLine /\ ridx = 0 /\ nread = 0
    /\ logfile = NoFile /\ emitted = <<>> /\ logReads = 0 /\ hist = NoHist
    /\ on_addr = NoCall /\ fan = NoFan
    /\ StopRest

\* Line 69: the next line of proc.stdout: the first one is any line at
\* all, the ones after it are lines as the process writes them.
ParseRead == read_line(IF nread = 0 THEN AllLines ELSE OutputLines)

NextParse ==
    \/ ParseRead
    \/ ReaderSend
    \/ ReaderSetUrl

SpecParse == InitParse /\ [][NextParse]_vars

\* AddrConsumer.send has returned for the line rline.
SendReturned == rpc \in {"fan", "next"} /\ ridx > 1

\* The alias table as the claim states it.
Normalised(tag) ==
    IF tag = "o.e.h.HttpServer" THEN "http"
    ELSE IF tag = "o.e.t.TransportService" THEN "transport"
    ELSE tag

\* C12: when AddrConsumer.send has returned for a line that matches the
\* address pattern, the callback has been called exactly once, with the
\* protocol normalised through the alias table (o.e.h.HttpServer to http,
\* o.e.t.TransportService to transport, any other tag unchanged) and the
\* captured address; for a line that does not match, _parse returns
\* (None, None) and the callback is never called: a call implies a line
\* with a protocol tag, the word publish_address and an address.
C12_CallbackPerMatch ==
    /\ on_addr.calls <= 1
    /\ (SendReturned /\ ADDRESS_RE(rline)) =>
          /\ on_addr.calls = 1
          /\ on_addr.protocol = Normalised(rline.tag)
          /\ on_addr.addr = rline.addr
    /\ (rline # NoLine /\ ~ADDRESS_RE(rline)) =>
          /\ on_addr.calls = 0
          /\ _parse(rline) = <<None, None>>
    /\ on_addr.calls > 0 =>
          /\ rline.key = "publish_address"
          /\ rline.tag \notin {"node", ""}
          /\ rline.addr \in {Addr1, Addr2}
          /\ rline.pad > 0 /\ rline.node /\ rline.close

\* A line of the logger o.e.h.HttpServer with an inet[name/ prefix before
\* its address, reported to the callback as http with that address.
C12_Witness ==
    /\ SendReturned /\ rline.tag = "o.e.h.HttpServer"
    /\ rline.wrap = "inet[crate/" /\ rline.addr = Addr2
    /\ on_addr = [NoCall EXCEPT !.calls = 1, !.protocol = "http", !.addr = Addr2]

\* A line naming bound_addresses only, passed over without a call.
C12_WitnessNoMatch ==
    /\ SendReturned /\ rline.tag = "http" /\ rline.key = "bound_addresses"
    /\ rline.addr = Addr1 /\ on_addr.calls = 0

\* _set_addr has returned to AddrConsumer.send.
CallbackReturned == on_addr.calls = 1 /\ rpc # "set_url"

\* C16: when the callback _set_addr has returned, for protocol http the
\* stored address is the new one and the ready URL is 'http://' + it (an
\* address equal to the stored one leaves it as it was); for any other
\* protocol http_host and http_url are what they were before the call.
C16_OnlyHttpStored ==
    CallbackReturned =>
        /\ on_addr.protocol = "http" =>
              /\ http_host = on_addr.addr
              /\ http_url = [scheme |-> "http", addr |-> on_addr.addr]
              /\ on_addr.addr = on_addr.host_before =>
                    http_host = on_addr.host_before
        /\ on_addr.protocol # "http" =>
              /\ http_host = on_addr.host_before
              /\ http_url = on_addr.url_before

\* A psql line arriving after an http address was stored and upgraded:
\* both are left alone.
C16_Witness ==
    /\ CallbackReturned /\ on_addr.protocol = "psql"
    /\ on_addr.host_before = Addr1 /\ http_host = Addr1
    /\ http_url = [scheme |-> "https", addr |-> Addr1]

\* A second http line with another address replacing the stored one.
C16_WitnessReplace ==
    /\ CallbackReturned /\ on_addr.protocol = "http" /\ nread = 2
    /\ on_addr.host_before = Addr1 /\ http_host = Addr2

-----------------------------------------------------------------------------
(***************************************************************************)
(* The process handle, the reader's error handling (lines 67-75) and       *)
(* CrateNode.stop (lines 277-284) with the data directory on disk.         *)
(*                                                                         *)
(* start() is summarised by what it leaves for stop(): the Popen handle    *)
(* and the running reader thread.  stop() runs on the caller's thread and  *)
(* is one action; what the outside world does to it (whether the process   *)
(* exits within the wait, which deletions fail) is chosen by the           *)
(* environment.                                                            *)
(***************************************************************************)

\* longest data_path, in characters
MaxPathLen == 3
\* number of calls of stop() on one node
MaxStops == 2

\* The characters of a data_path: two path characters and the separator.
Chars == {"a", "b", ","}

\* The values of data_path: one path or several joined by commas (line
\* 204: the 'path.data' setting, or a fresh temporary directory), each
\* path at least one character long.
DataPaths ==
    { s \in UNION { [1..n -> Chars] : n \in 1..MaxPathLen } :
        /\ s[1] # "," /\ s[Len(s)] # ","
        /\ \A i \in 1..(Len(s) - 1) : ~(s[i] = "," /\ s[i + 1] = ",") }

\* The index of the first sep in s, or 0.
find(s, sep) ==
    IF \E i \in 1..Len(s) : s[i] = sep
    THEN CHOOSE i \in 1..Len(s) : s[i] = sep /\ \A k \in 1..(i - 1) : s[k] # sep
    ELSE 0

\* str.split(sep), line 282.
RECURSIVE split(_, _)
split(s, sep) ==
    IF find(s, sep) = 0 THEN <<s>>
    ELSE <<SubSeq(s, 1, find(s, sep) - 1)>>
         \o split(SubSeq(s, find(s, sep) + 1, Len(s)), sep)

\* Line 282: path = self.data_path.split(',')
stop_paths(dp) == split(dp, ",")

\* The elements of a sequence.
Range(seq) == { seq[i] : i \in 1..Len(seq) }

\* Lines 283-284: shutil.rmtree(p) for each p in turn.  rmtree raises for a
\* path that does not exist and for one the environment refuses (fail);
\* the exception ends the loop.
RECURSIVE rmtree_all(_, _, _)
rmtree_all(paths, d, fail) ==
    IF paths = <<>> THEN [disk |-> d, tried |-> <<>>, raised |-> FALSE]
    ELSE IF Head(paths) \notin d \/ Head(paths) \in fail
         THEN [disk |-> d, tried |-> <<Head(paths)>>, raised |-> TRUE]
         ELSE LET r == rmtree_all(Tail(paths), d \ {Head(paths)}, fail)
              IN  [disk |-> r.disk, tried |-> <<Head(paths)>> \o r.tried,
                   raised |-> r.raised]

\* Mutant: the data directory is deleted whatever keep_data says.
deletes_always(keep) == TRUE

\* Line 281: if not self.keep_data
deletes(keep) == ~keep

\* CrateNode.__init__ (lines 196, 204, 207) and the disk it finds: any of
\* the directories data_path names may exist already.
InitStop ==
    /\ PollRest
    /\ first_ok = TRUE
    /\ NodeRest
    /\ data_path \in DataPaths
    /\ keep_data \in BOOLEAN
    /\ disk \in SUBSET Range(split(data_path, ","))
    /\ alive = FALSE
    /\ returncode = None
    /\ phase = "NotStarted"
    /\ calls = <<>>
    /\ rexc = NoExc
    /\ run = NoRun

\* CrateNode.start, lines 224-247 and its outcome: the process is spawned
\* and the reader thread started; the process creates data directories;
\* start() returns (Ready) or raises TimeoutError (Failed).
StartNode ==
    /\ phase = "NotStarted"
    /\ calls = <<>>
    /\ process' = "Popen"
    /\ alive' = TRUE
    /\ rpc' = "next"
    /\ \E outcome \in {"Ready", "Failed"} : phase' = outcome
    /\ \E made \in SUBSET Range(split(data_path, ",")) : disk' = disk \cup made
    /\ UNCHANGED <<pollVars, run, first_ok, startVars, data_path, keep_data,
                   returncode, calls, rexc>>

\* The process exits on its own; nobody has collected the exit yet.
ProcExit ==
    /\ alive
    /\ alive' = FALSE
    /\ UNCHANGED <<pollVars, run, first_ok, nodeVars, data_path, keep_data, disk,
                   returncode, phase, calls, rexc>>

\* run_crate line 549: n.process.wait() returns once the process has
\* exited, and collects the exit.
Wait ==
    /\ phase = "Ready"
    /\ calls = <<>>
    /\ ~alive
    /\ returncode = None
    /\ returncode' = "0"
    /\ UNCHANGED <<pollVars, run, first_ok, nodeVars, data_path, keep_data, disk,
                   alive, phase, calls, rexc>>

\* CrateNode.stop, lines 277-284.  exits: whether a running process is
\* gone within the 10 units communicate() waits after terminate(); fail:
\* the paths whose deletion the file system refuses.
stop_call ==
    /\ Len(calls) < MaxStops
    /\ \E exits \in BOOLEAN, fail \in SUBSET Range(split(data_path, ",")) :
         LET has    == process # None
             signal == has /\ returncode = None
             gone   == ~alive \/ exits
             tmo    == has /\ ~gone
             paths  == IF tmo \/ ~deletes(keep_data) THEN <<>>
                       ELSE stop_paths(data_path)
             rm     == rmtree_all(paths, disk, fail)
             rc     == IF returncode # None THEN returncode
                       ELSE IF alive THEN "-15" ELSE "0"
         IN  /\ (~has \/ ~alive) => exits
             /\ alive' = IF has /\ gone THEN FALSE ELSE alive
             /\ returncode' = IF has /\ gone THEN rc ELSE returncode
             /\ disk' = rm.disk
             /\ calls' = Append(calls,
                   [ events |-> (IF has THEN <<"terminate", "communicate">> ELSE <<>>)
                                \o [i \in 1..Len(rm.tried) |-> "rmtree"],
                     hasProcess |-> has,
                     signalled |-> signal,
                     reaped |-> has /\ returncode # None,
                     waitTimedOut |-> tmo,
                     tried |-> rm.tried,
                     rmRaised |-> rm.raised,
                     raised |-> tmo \/ rm.raised,
                     before |-> [disk |-> disk, returncode |-> returncode,
                                 alive |-> alive],
                     after |-> [disk |-> rm.disk,
                                returncode |-> IF has /\ gone THEN rc ELSE returncode,
                                alive |-> IF has /\ gone THEN FALSE ELSE alive] ])
    /\ UNCHANGED <<pollVars, first_ok, nodeVars, data_path, keep_data, phase, rexc>>

\* A call of stop() by a user of CrateNode.
stop ==
    /\ stop_call
    /\ UNCHANGED run

\* Line 69: iterating proc.stdout raises in the reader thread.
ReaderRaise ==
    /\ rpc = "next"
    /\ rpc' = "caught"
    /\ rexc' = [raised |-> TRUE, exited |-> ~alive]
    /\ UNCHANGED <<pollVars, run, first_ok, process, startVars, data_path, keep_data,
                   disk, alive, returncode, phase, calls>>

\* Mutant: the handler asks the operating system whether the process is gone.
swallows_if_exited(rc, running) == ~running

\* Line 73: if proc.returncode is not None
swallows(rc, running) == rc # None

\* Lines 72-75: the except clause returns quietly or raises again.
ReaderHandle ==
    /\ rpc = "caught"
    /\ rpc' = IF swallows(returncode, alive) THEN "swallowed" ELSE "fatal"
    /\ UNCHANGED <<pollVars, run, first_ok, process, startVars, stopVars>>

\* Line 69: proc.stdout is at its end once the process is gone; the loop
\* and the thread end.
ReaderEof ==
    /\ rpc = "next"
    /\ ~alive
    /\ rpc' = "eof"
    /\ UNCHANGED <<pollVars, run, first_ok, process, startVars, stopVars>>

NextStop ==
    \/ StartNode
    \/ ProcExit
    \/ Wait
    \/ stop
    \/ ReaderRaise
    \/ ReaderHandle
    \/ ReaderEof

SpecStop == InitStop /\ [][NextStop]_vars

-----------------------------------------------------------------------------
(***************************************************************************)
(* Claims about stop() and the reader's error handling (under SpecStop).   *)
(***************************************************************************)

\* The paths data_path names: its maximal comma-free stretches, each
\* bounded by a comma or an end of the string.
SegmentsOf(dp) ==
    { SubSeq(dp, i, j) : <<i, j>> \in
        { ij \in (1..(Len(dp) + 1)) \X (0..Len(dp)) :
            /\ ij[1] <= ij[2] + 1
            /\ \A k \in ij[1]..ij[2] : dp[k] # ","
            /\ (ij[1] = 1 \/ dp[ij[1] - 1] = ",")
            /\ (ij[2] = Len(dp) \/ dp[ij[2] + 1] = ",") } }

\* C3 (as claimed): on every node (never started, Ready or Failed;
\* keep_data or not) a call of stop() that follows a stop() that completed
\* does not raise, sends no termination signal and changes nothing.
C3_SecondStopNoOp ==
    \A i \in 2..Len(calls) :
        ~calls[i - 1].raised =>
            /\ ~calls[i].raised
            /\ ~calls[i].signalled
            /\ calls[i].after = calls[i].before

\* C4 (as claimed): a failing teardown step does not keep stop() from the
\* remaining ones: after a wait that timed out the data paths are still
\* deleted (unless keep_data), and after a deletion that failed every
\* other path is still tried.
C4_TeardownBestEffort ==
    \A i \in 1..Len(calls) :
        /\ (calls[i].waitTimedOut /\ ~keep_data) =>
               Range(calls[i].tried) = SegmentsOf(data_path)
        /\ calls[i].rmRaised => Range(calls[i].tried) = SegmentsOf(data_path)

\* C5: a stop() that completes normally has, with keep_data false, deleted
\* every path that splitting data_path on ',' yields; with keep_data true
\* stop() deletes no path; and when there is a process handle, terminate()
\* and the wait for the exit come before any deletion.
C5_StopDeletes ==
    \A i \in 1..Len(calls) :
        /\ (~calls[i].raised /\ ~keep_data) =>
               /\ Range(calls[i].tried) = SegmentsOf(data_path)
               /\ calls[i].after.disk \cap SegmentsOf(data_path) = {}
        /\ keep_data =>
               /\ calls[i].tried = <<>>
               /\ calls[i].after.disk = calls[i].before.disk
        /\ \A k \in 1..Len(calls[i].events) :
               (calls[i].events[k] = "rmtree" /\ calls[i].hasProcess) =>
                   /\ k > 2
                   /\ calls[i].events[1] = "terminate"
                   /\ calls[i].events[2] = "communicate"

\* A stop() of a started node that terminated the process, waited and then
\* deleted both paths of a two-path data_path.
C5_Witness ==
    /\ Len(calls) >= 1
    /\ ~calls[1].raised /\ calls[1].hasProcess /\ calls[1].signalled
    /\ ~keep_data /\ Len(calls[1].tried) = 2
    /\ calls[1].before.disk # {} /\ calls[1].after.disk = {}

\* C10 (as claimed): an exception raised by the iteration over the process
\* output is swallowed whenever the process had already exited when it
\* occurred, and is not swallowed while the process is still running.
C10_ReaderErrors ==
    /\ (rpc \in {"swallowed", "fatal"} /\ rexc.exited) => rpc = "swallowed"
    /\ rpc = "swallowed" => ~alive

-----------------------------------------------------------------------------
(***************************************************************************)
(* run_crate (lines 546-551): the with-block over a fresh CrateNode, whose *)
(* __exit__ (lines 289-290) calls stop().                                  *)
(*                                                                         *)
(* start() is summarised as in SpecStop.  A KeyboardInterrupt is what the  *)
(* interpreter raises in the main thread when the user aborts; it may      *)
(* arrive wherever the caller is inside the try block.                     *)
(***************************************************************************)

\* Mutant: the except clause of line 550 matches no exception.
catches_nothing(exc) == FALSE

\* Line 550: except KeyboardInterrupt
catches(exc) == exc = "KeyboardInterrupt"

\* Line 548: n.start() spawns the process and starts the reader (lines
\* 224-247), then blocks in its waiting stages.
RunLaunch ==
    /\ run.pc = "with"
    /\ process' = "Popen"
    /\ alive' = TRUE
    /\ rpc' = "next"
    /\ \E made \in SUBSET Range(split(data_path, ",")) : disk' = disk \cup made
    /\ run' = [run EXCEPT !.pc = "start"]
    /\ UNCHANGED <<pollVars, first_ok, startVars, data_path, keep_data,
                   returncode, phase, calls, rexc>>

\* Line 548: n.start() comes to its end: it returns and the caller goes on
\* to n.process.wait() (line 549), or it raises TimeoutError (line 265).
RunStartEnds ==
    /\ run.pc = "start"
    /\ \E outcome \in {"Ready", "Failed"} :
         /\ phase' = outcome
         /\ run' = IF outcome = "Ready"
                   THEN [run EXCEPT !.pc = "wait"]
                   ELSE [run EXCEPT !.pc = "except", !.exc = "TimeoutError",
                                    !.at = "start"]
    /\ UNCHANGED <<pollVars, first_ok, nodeVars, data_path, keep_data, disk,
                   alive, returncode, calls, rexc>>

\* A KeyboardInterrupt arrives while the caller is inside the try block:
\* in n.start() before the process is spawned, in n.start() while it
\* waits, or in n.process.wait().
RunInterrupt ==
    /\ run.pc \in {"with", "start", "wait"}
    /\ run' = [run EXCEPT !.pc = "except", !.exc = "KeyboardInterrupt",
                          !.at = run.pc]
    /\ UNCHANGED <<pollVars, first_ok, nodeVars, stopVars>>

\* Line 549: n.process.wait() returns once the process has exited, and
\* collects the exit; the try block ends.
RunWait ==
    /\ run.pc = "wait"
    /\ ~alive
    /\ returncode' = IF returncode = None THEN "0" ELSE returncode
    /\ run' = [run EXCEPT !.pc = "exit"]
    /\ UNCHANGED <<pollVars, first_ok, nodeVars, data_path, keep_data, disk,
                   alive, phase, calls, rexc>>

\* Lines 550-551: the exception leaving the try block meets the except
\* clause: a KeyboardInterrupt is handled (a message is printed), any other
\* exception goes on to leave the with-block.
RunExcept ==
    /\ run.pc = "except"
    /\ run' = IF catches(run.exc)
              THEN [run EXCEPT !.pc = "exit", !.exc = "None", !.caught = TRUE]
              ELSE [run EXCEPT !.pc = "exit"]
    /\ UNCHANGED <<pollVars, first_ok, nodeVars, stopVars>>

\* Lines 289-290: the with-block is left and __exit__ calls stop().  An
\* exception of stop() leaves run_crate; __exit__ returns None otherwise,
\* so an exception that was leaving the with-block goes on; else run_crate
\* returns.
RunExit ==
    /\ run.pc = "exit"
    /\ stop_call
    /\ run' = IF calls'[Len(calls')].raised
              THEN [run EXCEPT !.pc = "raised", !.exc = "StopError"]
              ELSE IF run.exc # "None" THEN [run EXCEPT !.pc = "raised"]
              ELSE [run EXCEPT !.pc = "returned"]

NextRun ==
    \/ RunLaunch
    \/ RunStartEnds
    \/ RunInterrupt
    \/ ProcExit
    \/ RunWait
    \/ RunExcept
    \/ RunExit

\* The caller's thread keeps running once an exception is on its way out
\* of the try block.
SpecRun == InitStop /\ [][NextRun]_vars /\ WF_vars(RunExcept \/ RunExit)

-----------------------------------------------------------------------------
(***************************************************************************)
(* Claims about run_crate (checked under SpecRun).                         *)
(***************************************************************************)

\* What a call of stop() owes: with a process handle, terminate() and the
\* wait for the exit, in that order and before any deletion; the deletion
\* of the data paths attempted unless keep_data, and never with keep_data.
StopSequence(c) ==
    /\ c.hasProcess =>
         /\ Len(c.events) >= 2
         /\ c.events[1] = "terminate" /\ c.events[2] = "communicate"
    /\ (~c.raised /\ ~keep_data) =>
         /\ Range(c.tried) = SegmentsOf(data_path)
         /\ c.after.disk \cap SegmentsOf(data_path) = {}
    /\ keep_data => c.tried = <<>>

\* C11: a KeyboardInterrupt that arrives while the caller of run_crate is
\* in n.start() or in n.process.wait() never leaves run_crate; stop() is
\* not called while the caller is still inside the try block; once the
\* with-block has been left (after the interrupt, after a TimeoutError of
\* start(), or after the process exited) stop() has been called exactly
\* once, with its whole sequence; and every exception on its way out of the
\* try block does lead to that call.
C11_InterruptStops ==
    /\ [](run.pc = "raised" => run.exc # "KeyboardInterrupt")
    /\ [](run.pc \in {"with", "start", "wait", "except", "exit"} => calls = <<>>)
    /\ [](run.pc \in {"returned", "raised"} =>
            /\ Len(calls) = 1
            /\ StopSequence(calls[1]))
    /\ []((run.pc = "raised" /\ run.exc = "TimeoutError") => run.at = "start")
    /\ (run.pc = "except") ~> (Len(calls) = 1)

\* run_crate returned after a KeyboardInterrupt in n.process.wait(), its
\* one stop() having terminated the running process and deleted two paths.
C11_Witness ==
    /\ run.pc = "returned" /\ run.caught /\ run.at = "wait"
    /\ Len(calls) = 1 /\ calls[1].signalled /\ calls[1].before.alive
    /\ Len(calls[1].tried) = 2

\* run_crate left by the TimeoutError of start(), after its one stop().
C11_WitnessTimeout ==
    /\ run.pc = "raised" /\ run.exc = "TimeoutError" /\ Len(calls) = 1
    /\ ~calls[1].raised /\ calls[1].hasProcess

=============================================================================
